---------------------------- MODULE Spec2Model ----------------------------
(***************************************************************************)
(* tools/gen_prime_rom.py: the generator of the prime-sieve test ROM.      *)
(*                                                                         *)
(* The model follows generate_rom() statement by statement (the emission   *)
(* of the 68000 program into the bytearray `program`, the patching of the  *)
(* forward branches, the vector table, the header, the padding and the     *)
(* checksum), then boots a 68000 on the returned image and executes the    *)
(* emitted bytes one instruction at a time.  assemble_68k(), the two-pass  *)
(* helper of the same file, is modelled as a second state machine.         *)
(*                                                                         *)
(* Byte sequences are TLA+ sequences: the byte at Python offset k is the   *)
(* element k + 1.                                                          *)
(***************************************************************************)
EXTENDS Integers, Sequences, FiniteSets, TLC

VARIABLES
    gen,        \* generate_rom(): its position and its locals, a record
                \*   stage     "assemble", "vectors", "append", "pad", "checksum", "done";
                \*             "off" where generate_rom() is not running
                \*   ip        index of the next statement of the program-building part
                \*   program   the bytearray `program`
                \*   locals    the offsets kept in local variables (labels, patch sites)
                \*   branches  history: the 8-bit branches emitted so far, [anchor, target]
                \*   rom       the bytearray `rom`
                \*   i         loop variable of the vector fill and of the checksum loop
                \*   checksum  the local `checksum`
    filler,     \* number of NOP instructions inserted in the sieve loop (0 in the source)
    cpu,        \* 68000 registers: pc, a0, a1, a7, d0, d1 (low words), n, z, v, c
    ram,        \* the modelled bytes of work RAM
    power,      \* history: what the RAM held at power-on, [fill, preset]
    stored,     \* history: the addresses written by the absolute-long stores, in order
    lastWrite,  \* history: the RAM write of the last executed instruction, <<addr, size>>
    insts,      \* assemble_68k: the argument `instructions`
    apass,      \* assemble_68k: 0 not called, 1 first pass, 2 second pass, 3 returned, 4 raised
    aidx,       \* assemble_68k: index of the next instruction of the current pass
    apc,        \* assemble_68k: the local `pc`
    labels,     \* assemble_68k: the dict `labels`
    code        \* assemble_68k: the bytearray `code`

genVars == <<gen, filler>>
cpuVars == <<cpu, ram, power, stored, lastWrite>>
asmVars == <<insts, apass, aidx, apc, labels, code>>
vars == <<genVars, cpuVars, asmVars>>

(***************************************************************************)
(* Python helpers                                                          *)
(***************************************************************************)
\* Python's x & 0xFF and x & 0xFFFF on an int of either sign.
Mask8(x) == x % 256
Mask16(x) == x % 65536

\* struct.pack('>H', val & 0xFFFF)
word(val) == <<Mask16(val) \div 256, Mask16(val) % 256>>

\* struct.pack('>I', val & 0xFFFFFFFF): the high and the low half of the
\* masked value, each as a big-endian word
long(val) == word((val \div 65536) % 65536) \o word(val % 65536)

\* s[a:b] = v on a bytearray (the slice is replaced, whatever the length of v)
SliceAssign(s, a, b, v) == SubSeq(s, 1, a) \o v \o SubSeq(s, b + 1, Len(s))

\* s[k] = b
ByteAssign(s, k, b) == [s EXCEPT ![k + 1] = b]

\* bytearray(n)
Zeros(n) == [k \in 1..n |-> 0]

\* the big-endian word and long at offset k of a byte sequence
WordAt(s, k) == s[k + 1] * 256 + s[k + 2]
LongAt(s, k) == WordAt(s, k) * 65536 + WordAt(s, k + 2)

\* two's complement readings
Signed8(b) == IF b >= 128 THEN b - 256 ELSE b
Signed16(w) == IF w >= 32768 THEN w - 65536 ELSE w

(***************************************************************************)
(* The instruction encoders of generate_rom()                              *)
(***************************************************************************)
LEA_FF0000_A7 == <<79, 249, 0, 255, 0, 0>>
LEA_FF0000_A0 == <<65, 249, 0, 255, 0, 0>>
LEA_FF0300_A1 == <<67, 249, 0, 255, 3, 0>>
\* a loop counter loaded with the number of iterations instead of one less
MOVE_W_IMM_D0_PlusOne(val) == <<48, 60>> \o word(val + 1)
MOVE_W_IMM_D0(val) == <<48, 60>> \o word(val)
MOVE_W_IMM_D1(val) == <<50, 60>> \o word(val)
CLR_B_A0_INC == <<66, 24>>
CLR_W_D1 == <<66, 65>>
MOVE_B_IMM_A0(val) == <<16, 188, 0, val>>
MOVE_B_IMM_A0_OFF(val, off) == <<17, 124, 0, val>> \o word(off)
TST_B_A0_D0 == <<74, 48, 0, 0>>
MOVE_B_1_A0_D1 == <<17, 188, 0, 1, 16, 0>>
CMP_W_IMM_D0(val) == <<176, 124>> \o word(val)
\* cmp.w with its immediate cut to one byte
CMP_W_IMM_D1_Byte(val) == <<178, 124>> \o word(val % 256)
CMP_W_IMM_D1(val) == <<178, 124>> \o word(val)
BNE_8(disp) == <<102, Mask8(disp)>>
BGT_8(disp) == <<110, Mask8(disp)>>
BGE_8(disp) == <<108, Mask8(disp)>>
BEQ_8(disp) == <<103, Mask8(disp)>>
BRA_8(disp) == <<96, Mask8(disp)>>
BRA_16(disp) == <<96, 0>> \o word(disp)
ADDQ_W_1_D0 == <<82, 64>>
ADDQ_W_1_D1 == <<82, 65>>
ADD_W_D0_D1 == <<210, 64>>
MOVE_W_D0_D1 == <<50, 0>>
DBRA_D0(disp) == <<81, 200>> \o word(disp)
MOVE_W_D0_A1_INC == <<50, 192>>
\* move.w d1,(xxx).l with the address cut to its low word
MOVE_W_D1_ABS_Short(addr) == <<51, 193>> \o long(addr % 65536)
MOVE_W_D1_ABS(addr) == <<51, 193>> \o long(addr)
MOVE_W_IMM_ABS(val, addr) == <<51, 252>> \o word(val) \o long(addr)
NOP == <<78, 113>>


(***************************************************************************)
(* Addresses and values the emitted program and its consumers agree on     *)
(***************************************************************************)
RAM_BASE == 16711680            \* $FF0000
PRIME_RESULTS_ADDR == 16712448  \* $FF0300
PRIME_COUNT_ADDR == 16712960    \* $FF0500
DONE_FLAG_ADDR == 16712962      \* $FF0502
DONE_FLAG_VALUE == 57005        \* $DEAD
SIEVE_SIZE == 600
NUM_PRIMES == 100
CODE_START == 512               \* $200
BLOCK == 512

(***************************************************************************)
(* generate_rom(), lines 111-211: the statements that build `program`.     *)
(* A statement is one of                                                   *)
(*   extend  program.extend(bytes)                                         *)
(*   label   name = len(program)                                           *)
(*   site    name = len(program) - 1      (the placeholder just emitted)   *)
(*   patch   program[name] = (target - name - 1) & 0xFF                    *)
(*   back    disp = target - len(program) - 2                              *)
(*           program.extend(BRA_8(disp & 0xFF))                            *)
(* `target` of a site is the label its comment names; `target` of an       *)
(* extend is the label of a branch whose displacement is written literally.*)
(***************************************************************************)
Ext(b) == [op |-> "extend", bytes |-> b, name |-> "", target |-> ""]
ExtBranch(b, t) == [op |-> "extend", bytes |-> b, name |-> "", target |-> t]
Lbl(n) == [op |-> "label", bytes |-> <<>>, name |-> n, target |-> ""]
Site(n, t) == [op |-> "site", bytes |-> <<>>, name |-> n, target |-> t]
Patch(n, t) == [op |-> "patch", bytes |-> <<>>, name |-> n, target |-> t]
Back(t) == [op |-> "back", bytes |-> <<>>, name |-> "", target |-> t]

\* lines 114-136: stack pointer, clear loop, 0 and 1, head of the sieve loop
StmtsHead ==
    << Ext(LEA_FF0000_A7),
       Ext(LEA_FF0000_A0),
       Ext(MOVE_W_IMM_D0(599)),
       Lbl("clear_loop"),
       Ext(CLR_B_A0_INC),
       Ext(DBRA_D0(-4)),
       Ext(LEA_FF0000_A0),
       Ext(MOVE_B_IMM_A0(1)),
       Ext(MOVE_B_IMM_A0_OFF(1, 1)),
       Ext(MOVE_W_IMM_D0(2)),
       Lbl("sieve_loop"),
       Ext(CMP_W_IMM_D0(25)),
       Ext(BGT_8(0)),
       Site("bgt_collect", "collect") >>

\* lines 139-211: the rest of the sieve loop, the collect loop, the markers, hang
StmtsTail ==
    << Ext(LEA_FF0000_A0),
       Ext(TST_B_A0_D0),
       Ext(BNE_8(0)),
       Site("bne_next1", "next_addr"),
       Ext(MOVE_W_D0_D1),
       Ext(ADD_W_D0_D1),
       Lbl("mark_multiples"),
       Ext(CMP_W_IMM_D1(600)),
       Ext(BGE_8(0)),
       Site("bge_next", "next_addr"),
       Ext(MOVE_B_1_A0_D1),
       Ext(ADD_W_D0_D1),
       Back("mark_multiples"),
       Lbl("next_addr"),
       Patch("bne_next1", "next_addr"),
       Patch("bge_next", "next_addr"),
       Ext(ADDQ_W_1_D0),
       Back("sieve_loop"),
       Lbl("collect"),
       Patch("bgt_collect", "collect"),
       Ext(LEA_FF0000_A0),
       Ext(LEA_FF0300_A1),
       Ext(CLR_W_D1),
       Ext(MOVE_W_IMM_D0(2)),
       Lbl("collect_loop"),
       Ext(CMP_W_IMM_D1(100)),
       Ext(BEQ_8(0)),
       Site("beq_done", "done_addr"),
       Ext(CMP_W_IMM_D0(600)),
       Ext(BGE_8(0)),
       Site("bge_done", "done_addr"),
       Ext(TST_B_A0_D0),
       Ext(BNE_8(0)),
       Site("bne_not_prime", "not_prime"),
       Ext(MOVE_W_D0_A1_INC),
       Ext(ADDQ_W_1_D1),
       Lbl("not_prime"),
       Patch("bne_not_prime", "not_prime"),
       Ext(ADDQ_W_1_D0),
       Back("collect_loop"),
       Lbl("done_addr"),
       Patch("beq_done", "done_addr"),
       Patch("bge_done", "done_addr"),
       Ext(MOVE_W_D1_ABS(PRIME_COUNT_ADDR)),
       Ext(MOVE_W_IMM_ABS(DONE_FLAG_VALUE, DONE_FLAG_ADDR)),
       Lbl("hang"),
       ExtBranch(BRA_8(-2), "hang") >>

\* n NOP instructions: the two bytes of NOP, n times
Nops(n) == [k \in 1..(2 * n) |-> NOP[((k - 1) % 2) + 1]]

\* The program as written has no filler; with f > 0 that many NOPs stand in
\* the sieve loop, between `bgt.s collect` and its label (and between the
\* label sieve_loop and `bra.s sieve_loop`).
Stmts(f) ==
    StmtsHead \o (IF f > 0 THEN <<Ext(Nops(f))>> ELSE <<>>) \o StmtsTail

\* the displacement counted from the placeholder, not from the end of the branch
PatchByteFromSite(target_offset, site) == Mask8(target_offset - site)

\* line 160 (161, 168, 195, 202, 203): the byte patched into a placeholder
PatchByte(target_offset, site) == Mask8(target_offset - site - 1)

\* the displacement counted from the branch opcode, not from its end
BackDispFromOpcode(target_offset, here) == target_offset - here

\* line 155 (163, 197): the displacement of a backward branch
BackDisp(target_offset, here) == target_offset - here - 2

\* line 111: program = bytearray(), nothing else assigned yet
GenStart ==
    [stage |-> "assemble", ip |-> 1, program |-> <<>>, locals |-> [n \in {} |-> 0],
     branches |-> {}, rom |-> <<>>, i |-> 0, checksum |-> 0]

\* generate_rom() is not running
GenOff ==
    [stage |-> "off", ip |-> 1, program |-> <<>>, locals |-> [n \in {} |-> 0],
     branches |-> {}, rom |-> <<>>, i |-> 0, checksum |-> 0]

Assembling(g, f) == g.stage = "assemble" /\ g.ip <= Len(Stmts(f))
StmtOp(g, f) == Stmts(f)[g.ip].op
Bind(g, n, val) == (n :> val) @@ g.locals

\* program.extend(bytes)
DoExtend(g, f) ==
    LET st == Stmts(f)[g.ip]
    IN  [g EXCEPT !.program = @ \o st.bytes,
                  !.branches = IF st.target = "" THEN @
                               ELSE @ \cup {[anchor |-> Len(g.program), target |-> st.target]},
                  !.ip = @ + 1]

\* name = len(program)
DoLabel(g, f) ==
    [g EXCEPT !.locals = Bind(g, Stmts(f)[g.ip].name, Len(g.program)), !.ip = @ + 1]

\* name = len(program) - 1
DoPatchSite(g, f) ==
    LET st == Stmts(f)[g.ip]
    IN  [g EXCEPT !.locals = Bind(g, st.name, Len(g.program) - 1),
                  !.branches = @ \cup {[anchor |-> Len(g.program) - 2, target |-> st.target]},
                  !.ip = @ + 1]

\* program[name] = (target - name - 1) & 0xFF
DoPatchBranch(g, f) ==
    LET st == Stmts(f)[g.ip]
    IN  [g EXCEPT !.program = ByteAssign(@, g.locals[st.name],
                                         PatchByte(g.locals[st.target], g.locals[st.name])),
                  !.ip = @ + 1]

\* disp = target - len(program) - 2; program.extend(BRA_8(disp & 0xFF))
DoBackBranch(g, f) ==
    LET st == Stmts(f)[g.ip]
    IN  [g EXCEPT !.program = @ \o BRA_8(Mask8(BackDisp(g.locals[st.target], Len(g.program)))),
                  !.branches = @ \cup {[anchor |-> Len(g.program), target |-> st.target]},
                  !.ip = @ + 1]

(***************************************************************************)
(* generate_rom(), lines 213-288: the image                                *)
(***************************************************************************)
\* lines 226-270: the 256-byte header; the checksum slot is word(0) for now
header(g) ==
    LET h0 == Zeros(256)
        \* "SEGA MEGA DRIVE "
        h1 == SliceAssign(h0, 0, 16,
                <<83, 69, 71, 65, 32, 77, 69, 71, 65, 32, 68, 82, 73, 86, 69, 32>>)
        \* "(C)GXTEST 2026  "
        h2 == SliceAssign(h1, 16, 32,
                <<40, 67, 41, 71, 88, 84, 69, 83, 84, 32, 50, 48, 50, 54, 32, 32>>)
        \* "PRIME SIEVE TEST ROM" and 28 spaces
        name == <<80, 82, 73, 77, 69, 32, 83, 73, 69, 86, 69, 32, 84, 69, 83, 84,
                  32, 82, 79, 77>> \o [k \in 1..28 |-> 32]
        h3 == SliceAssign(h2, 32, 80, SubSeq(name, 1, 48))
        h4 == SliceAssign(h3, 80, 128, SubSeq(name, 1, 48))
        \* "GM 00000000-00"
        h5 == SliceAssign(h4, 128, 142,
                <<71, 77, 32, 48, 48, 48, 48, 48, 48, 48, 48, 45, 48, 48>>)
        h6 == SliceAssign(h5, 142, 144, word(0))
        \* "J" and 15 spaces
        h7 == SliceAssign(h6, 144, 160, <<74>> \o [k \in 1..15 |-> 32])
        rom_end == CODE_START + Len(g.program)
        h8 == SliceAssign(h7, 160, 164, long(0))
        h9 == SliceAssign(h8, 164, 168, long(rom_end - 1))
        h10 == SliceAssign(h9, 168, 172, long(RAM_BASE))
        h11 == SliceAssign(h10, 172, 176, long(16777215))
        h12 == SliceAssign(h11, 176, 188, [k \in 1..12 |-> 32])
        h13 == SliceAssign(h12, 188, 200, [k \in 1..12 |-> 32])
        \* "JUE"
    IN  SliceAssign(h13, 240, 243, <<74, 85, 69>>)

\* the sum started at the header
ChecksumFromHeader == CODE_START - 256

\* line 283: range(0x200, len(rom), 2) starts here
ChecksumStart == CODE_START

\* padding that forgets the alignment
NeedsPadShortOnly(n) == n < BLOCK

\* line 278: the condition of the padding loop
NeedsPad(n) == n < BLOCK \/ n % BLOCK # 0

\* hang_addr taken as the offset in `program`, without the $200 of the code start
DoAllocRomOffset(g) ==
    [g EXCEPT !.rom = SliceAssign(SliceAssign(Zeros(512), 0, 4, long(16777214)),
                                  4, 8, long(CODE_START)),
              !.locals = Bind(g, "hang_addr", g.locals["hang"]),
              !.i = 8,
              !.stage = "vectors"]

\* lines 214-221: rom = bytearray(0x200), the two reset vectors, hang_addr,
\* and the first value of the loop variable of line 222
DoAllocRom(g) ==
    [g EXCEPT !.rom = SliceAssign(SliceAssign(Zeros(512), 0, 4, long(16777214)),
                                  4, 8, long(CODE_START)),
              !.locals = Bind(g, "hang_addr", CODE_START + g.locals["hang"]),
              !.i = 8,
              !.stage = "vectors"]

\* lines 222-223: for i in range(0x08, 0x100, 4): rom[i:i+4] = long(hang_addr)
DoFillVector(g) ==
    [g EXCEPT !.rom = SliceAssign(@, g.i, g.i + 4, long(g.locals["hang_addr"])),
              !.i = @ + 4]

\* lines 226-272: the header is built and copied to rom[0x100:0x200]
DoPlaceHeader(g) ==
    [g EXCEPT !.rom = SliceAssign(@, 256, 512, header(g)), !.stage = "append"]

\* line 275: rom.extend(program)
DoAppendProgram(g) == [g EXCEPT !.rom = @ \o g.program, !.stage = "pad"]

\* line 279: rom.append(0)
DoPad(g) == [g EXCEPT !.rom = Append(@, 0)]

\* lines 282-283: checksum = 0 and the first value of the loop variable
DoStartChecksum(g) == [g EXCEPT !.checksum = 0, !.i = ChecksumStart, !.stage = "checksum"]

\* line 284: checksum += (rom[i] << 8) | rom[i+1]
DoAddWord(g) ==
    [g EXCEPT !.checksum = @ + (g.rom[g.i + 1] * 256 + g.rom[g.i + 2]), !.i = @ + 2]

\* lines 285-288: checksum &= 0xFFFF; rom[0x18E:0x190] = word(checksum); return
DoWriteChecksum(g) ==
    [g EXCEPT !.checksum = Mask16(@),
              !.rom = SliceAssign(@, 398, 400, word(Mask16(g.checksum))),
              !.stage = "done"]

\* the statement generate_rom() executes next
GenNext(g, f) ==
    CASE Assembling(g, f) /\ StmtOp(g, f) = "extend" -> DoExtend(g, f)
      [] Assembling(g, f) /\ StmtOp(g, f) = "label" -> DoLabel(g, f)
      [] Assembling(g, f) /\ StmtOp(g, f) = "site" -> DoPatchSite(g, f)
      [] Assembling(g, f) /\ StmtOp(g, f) = "patch" -> DoPatchBranch(g, f)
      [] Assembling(g, f) /\ StmtOp(g, f) = "back" -> DoBackBranch(g, f)
      [] g.stage = "assemble" /\ g.ip > Len(Stmts(f)) -> DoAllocRom(g)
      [] g.stage = "vectors" /\ g.i < 256 -> DoFillVector(g)
      [] g.stage = "vectors" /\ g.i >= 256 -> DoPlaceHeader(g)
      [] g.stage = "append" -> DoAppendProgram(g)
      [] g.stage = "pad" /\ NeedsPad(Len(g.rom)) -> DoPad(g)
      [] g.stage = "pad" /\ ~NeedsPad(Len(g.rom)) -> DoStartChecksum(g)
      [] g.stage = "checksum" /\ g.i < Len(g.rom) -> DoAddWord(g)
      [] g.stage = "checksum" /\ g.i >= Len(g.rom) -> DoWriteChecksum(g)

GenFrame == UNCHANGED <<filler, cpuVars, asmVars>>

Extend ==
    /\ Assembling(gen, filler) /\ StmtOp(gen, filler) = "extend"
    /\ gen' = DoExtend(gen, filler)
    /\ GenFrame

Label ==
    /\ Assembling(gen, filler) /\ StmtOp(gen, filler) = "label"
    /\ gen' = DoLabel(gen, filler)
    /\ GenFrame

PatchSite ==
    /\ Assembling(gen, filler) /\ StmtOp(gen, filler) = "site"
    /\ gen' = DoPatchSite(gen, filler)
    /\ GenFrame

PatchBranch ==
    /\ Assembling(gen, filler) /\ StmtOp(gen, filler) = "patch"
    /\ gen' = DoPatchBranch(gen, filler)
    /\ GenFrame

BackBranch ==
    /\ Assembling(gen, filler) /\ StmtOp(gen, filler) = "back"
    /\ gen' = DoBackBranch(gen, filler)
    /\ GenFrame

AllocRom ==
    /\ gen.stage = "assemble" /\ gen.ip > Len(Stmts(filler))
    /\ gen' = DoAllocRom(gen)
    /\ GenFrame

FillVector ==
    /\ gen.stage = "vectors" /\ gen.i < 256
    /\ gen' = DoFillVector(gen)
    /\ GenFrame

PlaceHeader ==
    /\ gen.stage = "vectors" /\ gen.i >= 256
    /\ gen' = DoPlaceHeader(gen)
    /\ GenFrame

AppendProgram ==
    /\ gen.stage = "append"
    /\ gen' = DoAppendProgram(gen)
    /\ GenFrame

Pad ==
    /\ gen.stage = "pad" /\ NeedsPad(Len(gen.rom))
    /\ gen' = DoPad(gen)
    /\ GenFrame

StartChecksum ==
    /\ gen.stage = "pad" /\ ~NeedsPad(Len(gen.rom))
    /\ gen' = DoStartChecksum(gen)
    /\ GenFrame

AddWord ==
    /\ gen.stage = "checksum" /\ gen.i < Len(gen.rom)
    /\ gen' = DoAddWord(gen)
    /\ GenFrame

WriteChecksum ==
    /\ gen.stage = "checksum" /\ gen.i >= Len(gen.rom)
    /\ gen' = DoWriteChecksum(gen)
    /\ GenFrame

Generate ==
    \/ Extend
    \/ Label
    \/ PatchSite
    \/ PatchBranch
    \/ BackBranch
    \/ AllocRom
    \/ FillVector
    \/ PlaceHeader
    \/ AppendProgram
    \/ Pad
    \/ StartChecksum
    \/ AddWord
    \/ WriteChecksum

\* more statements than generate_rom() executes before it returns
MaxGenSteps == 1024

\* n statements of generate_rom() from g, or as many as lead to its return;
\* the run is split in halves to keep the evaluation shallow
RECURSIVE GenRun(_, _, _)
GenRun(g, f, n) ==
    IF n = 0 \/ g.stage = "done" THEN g
    ELSE IF n = 1 THEN GenNext(g, f)
    ELSE GenRun(GenRun(g, f, n \div 2), f, n - (n \div 2))

\* what main() gets from generate_rom(): the locals at the return statement,
\* of which `rom` is the value returned
Returned == GenRun(GenStart, 0, MaxGenSteps)
Image == Returned.rom

(***************************************************************************)
(* The 68000 executing the image.  Each action is one instruction of the   *)
(* emitted program, decoded from the bytes of the image at cpu.pc; the     *)
(* comment of its encoder in generate_rom() names the instruction.  Data   *)
(* registers are kept as their low words: the program uses word operations *)
(* only.                                                                   *)
(*                                                                         *)
(* Work RAM is modelled where the module docstring places data: the sieve  *)
(* array, the prime results, the count and the done flag.  `ram` is a byte *)
(* sequence holding the three areas one after the other.  A write to any   *)
(* other address is recorded in lastWrite and stores nothing; a read of    *)
(* any other address is not modelled.                                      *)
(***************************************************************************)
\* what the RAM bytes and the data registers may hold at power-on
PowerOnFills == {0, 255}

InSieve(addr) == addr >= RAM_BASE /\ addr < RAM_BASE + SIEVE_SIZE
InResults(addr) == addr >= PRIME_RESULTS_ADDR /\ addr < PRIME_RESULTS_ADDR + 2 * NUM_PRIMES
InFields(addr) == addr >= PRIME_COUNT_ADDR /\ addr < DONE_FLAG_ADDR + 2
InRam(addr) == InSieve(addr) \/ InResults(addr) \/ InFields(addr)
RamBytes == SIEVE_SIZE + 2 * NUM_PRIMES + 4

\* the place in `ram` of the byte at addr
RamIndex(addr) ==
    CASE InSieve(addr) -> addr - RAM_BASE + 1
      [] InResults(addr) -> SIEVE_SIZE + (addr - PRIME_RESULTS_ADDR) + 1
      [] InFields(addr) -> SIEVE_SIZE + 2 * NUM_PRIMES + (addr - PRIME_COUNT_ADDR) + 1

ReadByteOf(m, addr) == m[RamIndex(addr)]
ReadWordOf(m, addr) == m[RamIndex(addr)] * 256 + m[RamIndex(addr + 1)]
ReadByte(addr) == ReadByteOf(ram, addr)
ReadWord(addr) == ReadWordOf(ram, addr)
WriteByte(addr, b) ==
    IF InRam(addr) THEN [ram EXCEPT ![RamIndex(addr)] = b] ELSE ram
WriteWord(addr, w) ==
    IF InRam(addr) /\ InRam(addr + 1)
    THEN [ram EXCEPT ![RamIndex(addr)] = w \div 256, ![RamIndex(addr + 1)] = w % 256]
    ELSE ram

\* reset: SSP and PC from vectors 0 and 1 of the image; RAM and data
\* registers hold whatever they held (one byte value everywhere, the done
\* flag possibly left at $DEAD by an earlier run)
PowerOn ==
    \E fill \in PowerOnFills, preset \in BOOLEAN :
        /\ power = [on |-> TRUE, fill |-> fill, preset |-> preset]
        /\ ram = [k \in 1..RamBytes |->
                    IF preset /\ k = RamIndex(DONE_FLAG_ADDR) THEN DONE_FLAG_VALUE \div 256
                    ELSE IF preset /\ k = RamIndex(DONE_FLAG_ADDR + 1) THEN DONE_FLAG_VALUE % 256
                    ELSE fill]
        /\ cpu = [pc |-> LongAt(Image, 4), a7 |-> LongAt(Image, 0), a0 |-> 0, a1 |-> 0,
                  d0 |-> fill * 257, d1 |-> fill * 257,
                  n |-> FALSE, z |-> FALSE, v |-> FALSE, c |-> FALSE]
        /\ stored = <<>>
        /\ lastWrite = <<>>

\* nothing of the CPU exists while the image is being generated
CpuOff ==
    /\ cpu = [pc |-> 0, a0 |-> 0, a1 |-> 0, a7 |-> 0, d0 |-> 0, d1 |-> 0,
              n |-> FALSE, z |-> FALSE, v |-> FALSE, c |-> FALSE]
    /\ ram = <<>>
    /\ power = [on |-> FALSE, fill |-> 0, preset |-> FALSE]
    /\ stored = <<>>
    /\ lastWrite = <<>>

Running == power.on /\ cpu.pc % 2 = 0 /\ cpu.pc >= 0 /\ cpu.pc + 2 <= Len(Image)
Opcode == WordAt(Image, cpu.pc)
AReg(r) == CASE r = 0 -> "a0" [] r = 1 -> "a1" [] r = 7 -> "a7"
DReg(r) == CASE r = 0 -> "d0" [] r = 1 -> "d1"

\* condition codes of a move, tst or clr of `val` (msb: the sign bit of the
\* operand size): V and C cleared
FlagsNZ(val, msb) == [n |-> val >= msb, z |-> val = 0, v |-> FALSE, c |-> FALSE]

\* condition codes of cmp.w: dst - src
FlagsCmp(dst, src) ==
    LET res == Mask16(dst - src)
    IN  [n |-> res >= 32768, z |-> res = 0,
         v |-> ((dst >= 32768) # (src >= 32768)) /\ ((res >= 32768) # (dst >= 32768)),
         c |-> src > dst]

\* condition codes of add.w and addq.w: dst + src
FlagsAdd(dst, src) ==
    LET res == Mask16(dst + src)
    IN  [n |-> res >= 32768, z |-> res = 0,
         v |-> ((dst >= 32768) = (src >= 32768)) /\ ((res >= 32768) # (dst >= 32768)),
         c |-> dst + src >= 65536]

SetFlags(r, f) == [r EXCEPT !.n = f.n, !.z = f.z, !.v = f.v, !.c = f.c]

\* the index of a brief extension word: Dn.w, sign-extended, plus disp8
IsDataWordIndex(ext) == ext \div 4096 \in {0, 1} /\ (ext \div 2048) % 2 = 0
IndexOf(ext) == Signed16(cpu[DReg(ext \div 4096)]) + Signed8(ext % 256)

NoWrite == <<>>
CpuStep(newcpu, newram, write) ==
    /\ cpu' = newcpu
    /\ ram' = newram
    /\ lastWrite' = write
    /\ UNCHANGED <<power, genVars, asmVars>>

\* lea (xxx).l,An         LEA_FF0000_A7, LEA_FF0000_A0, LEA_FF0300_A1
Lea ==
    /\ Running
    /\ Opcode \in {16889, 17401, 20473}
    /\ CpuStep([cpu EXCEPT ![AReg((Opcode \div 512) % 8)] = LongAt(Image, cpu.pc + 2),
                           !.pc = @ + 6],
               ram, NoWrite)
    /\ UNCHANGED stored

\* move.w #imm,Dn         MOVE_W_IMM_D0, MOVE_W_IMM_D1
MoveWImmDn ==
    /\ Running
    /\ Opcode \in {12348, 12860}
    /\ LET imm == WordAt(Image, cpu.pc + 2)
       IN  CpuStep(SetFlags([cpu EXCEPT ![DReg((Opcode \div 512) % 8)] = imm, !.pc = @ + 4],
                            FlagsNZ(imm, 32768)),
                   ram, NoWrite)
    /\ UNCHANGED stored

\* clr.b (a0)+            CLR_B_A0_INC
ClrBPostInc ==
    /\ Running
    /\ Opcode = 16920
    /\ CpuStep(SetFlags([cpu EXCEPT !.a0 = @ + 1, !.pc = @ + 2], FlagsNZ(0, 128)),
               WriteByte(cpu.a0, 0), <<cpu.a0, 1>>)
    /\ UNCHANGED stored

\* clr.w d1               CLR_W_D1
ClrWDn ==
    /\ Running
    /\ Opcode = 16961
    /\ CpuStep(SetFlags([cpu EXCEPT !.d1 = 0, !.pc = @ + 2], FlagsNZ(0, 32768)),
               ram, NoWrite)
    /\ UNCHANGED stored

\* the counter of dbra after its decrement
DbraCount(d) == Mask16(d - 1)

\* dbra d0,disp           DBRA_D0: d0.w is decremented; the branch is taken
\* unless the result is -1; the displacement counts from the displacement word
Dbra ==
    /\ Running
    /\ Opcode = 20936
    /\ LET count == DbraCount(cpu.d0)
           disp == Signed16(WordAt(Image, cpu.pc + 2))
       IN  CpuStep([cpu EXCEPT !.d0 = count,
                               !.pc = IF count # 65535 THEN cpu.pc + 2 + disp ELSE cpu.pc + 4],
                   ram, NoWrite)
    /\ UNCHANGED stored

\* move.b #imm,(a0)       MOVE_B_IMM_A0
MoveBImmInd ==
    /\ Running
    /\ Opcode = 4284
    /\ LET imm == WordAt(Image, cpu.pc + 2) % 256
       IN  CpuStep(SetFlags([cpu EXCEPT !.pc = @ + 4], FlagsNZ(imm, 128)),
                   WriteByte(cpu.a0, imm), <<cpu.a0, 1>>)
    /\ UNCHANGED stored

\* move.b #imm,off(a0)    MOVE_B_IMM_A0_OFF
MoveBImmDisp ==
    /\ Running
    /\ Opcode = 4476
    /\ LET imm == WordAt(Image, cpu.pc + 2) % 256
           addr == cpu.a0 + Signed16(WordAt(Image, cpu.pc + 4))
       IN  CpuStep(SetFlags([cpu EXCEPT !.pc = @ + 6], FlagsNZ(imm, 128)),
                   WriteByte(addr, imm), <<addr, 1>>)
    /\ UNCHANGED stored

\* move.b #imm,(a0,Dn.w)  MOVE_B_1_A0_D1
MoveBImmIdx ==
    /\ Running
    /\ Opcode = 4540
    /\ IsDataWordIndex(WordAt(Image, cpu.pc + 4))
    /\ LET imm == WordAt(Image, cpu.pc + 2) % 256
           addr == cpu.a0 + IndexOf(WordAt(Image, cpu.pc + 4))
       IN  CpuStep(SetFlags([cpu EXCEPT !.pc = @ + 6], FlagsNZ(imm, 128)),
                   WriteByte(addr, imm), <<addr, 1>>)
    /\ UNCHANGED stored

\* tst.b (a0,Dn.w)        TST_B_A0_D0
TstBIdx ==
    /\ Running
    /\ Opcode = 18992
    /\ IsDataWordIndex(WordAt(Image, cpu.pc + 2))
    /\ InRam(cpu.a0 + IndexOf(WordAt(Image, cpu.pc + 2)))
    /\ CpuStep(SetFlags([cpu EXCEPT !.pc = @ + 4],
                        FlagsNZ(ReadByte(cpu.a0 + IndexOf(WordAt(Image, cpu.pc + 2))), 128)),
               ram, NoWrite)
    /\ UNCHANGED stored

\* cmp.w #imm,Dn          CMP_W_IMM_D0, CMP_W_IMM_D1
CmpWImm ==
    /\ Running
    /\ Opcode \in {45180, 45692}
    /\ CpuStep(SetFlags([cpu EXCEPT !.pc = @ + 4],
                        FlagsCmp(cpu[DReg((Opcode \div 512) % 8)], WordAt(Image, cpu.pc + 2))),
               ram, NoWrite)
    /\ UNCHANGED stored

\* the condition of Bcc: bra, bne, beq, bge, bgt
CondHolds(cc) ==
    CASE cc = 96 -> TRUE
      [] cc = 102 -> ~cpu.z
      [] cc = 103 -> cpu.z
      [] cc = 108 -> cpu.n = cpu.v
      [] cc = 110 -> ~cpu.z /\ (cpu.n = cpu.v)

\* bra.s, bne.s, beq.s, bge.s, bgt.s    BRA_8, BNE_8, BEQ_8, BGE_8, BGT_8
\* (a displacement byte of 0 selects the 16-bit form, BRA_16)
Branch ==
    /\ Running
    /\ Opcode \div 256 \in {96, 102, 103, 108, 110}
    /\ LET d8 == Opcode % 256
           disp == IF d8 = 0 THEN Signed16(WordAt(Image, cpu.pc + 2)) ELSE Signed8(d8)
           size == IF d8 = 0 THEN 4 ELSE 2
       IN  CpuStep([cpu EXCEPT !.pc = IF CondHolds(Opcode \div 256)
                                      THEN cpu.pc + 2 + disp
                                      ELSE cpu.pc + size],
                   ram, NoWrite)
    /\ UNCHANGED stored

\* move.w d0,d1           bytes([0x32, 0x00])
MoveWDnDn ==
    /\ Running
    /\ Opcode = 12800
    /\ CpuStep(SetFlags([cpu EXCEPT !.d1 = cpu.d0, !.pc = @ + 2], FlagsNZ(cpu.d0, 32768)),
               ram, NoWrite)
    /\ UNCHANGED stored

\* add.w d0,d1            ADD_W_D0_D1
AddWDnDn ==
    /\ Running
    /\ Opcode = 53824
    /\ CpuStep(SetFlags([cpu EXCEPT !.d1 = Mask16(cpu.d1 + cpu.d0), !.pc = @ + 2],
                        FlagsAdd(cpu.d1, cpu.d0)),
               ram, NoWrite)
    /\ UNCHANGED stored

\* addq.w #1,Dn           ADDQ_W_1_D0, ADDQ_W_1_D1
AddqW ==
    /\ Running
    /\ Opcode \in {21056, 21057}
    /\ LET r == DReg(Opcode % 8)
       IN  CpuStep(SetFlags([cpu EXCEPT ![r] = Mask16(cpu[r] + 1), !.pc = @ + 2],
                            FlagsAdd(cpu[r], 1)),
                   ram, NoWrite)
    /\ UNCHANGED stored

\* move.w d0,(a1)+        MOVE_W_D0_A1_INC
MoveWDnPostInc ==
    /\ Running
    /\ Opcode = 12992
    /\ cpu.a1 % 2 = 0
    /\ CpuStep(SetFlags([cpu EXCEPT !.a1 = @ + 2, !.pc = @ + 2], FlagsNZ(cpu.d0, 32768)),
               WriteWord(cpu.a1, cpu.d0), <<cpu.a1, 2>>)
    /\ UNCHANGED stored

\* move.w d1,(xxx).l      MOVE_W_D1_ABS
MoveWDnAbs ==
    /\ Running
    /\ Opcode = 13249
    /\ LET addr == LongAt(Image, cpu.pc + 2)
       IN  /\ addr % 2 = 0
           /\ CpuStep(SetFlags([cpu EXCEPT !.pc = @ + 6], FlagsNZ(cpu.d1, 32768)),
                      WriteWord(addr, cpu.d1), <<addr, 2>>)
           /\ stored' = Append(stored, addr)

\* move.w #imm,(xxx).l    MOVE_W_IMM_ABS
MoveWImmAbs ==
    /\ Running
    /\ Opcode = 13308
    /\ LET imm == WordAt(Image, cpu.pc + 2)
           addr == LongAt(Image, cpu.pc + 4)
       IN  /\ addr % 2 = 0
           /\ CpuStep(SetFlags([cpu EXCEPT !.pc = @ + 8], FlagsNZ(imm, 32768)),
                      WriteWord(addr, imm), <<addr, 2>>)
           /\ stored' = Append(stored, addr)

Execute ==
    \/ Lea
    \/ MoveWImmDn
    \/ ClrBPostInc
    \/ ClrWDn
    \/ Dbra
    \/ MoveBImmInd
    \/ MoveBImmDisp
    \/ MoveBImmIdx
    \/ TstBIdx
    \/ CmpWImm
    \/ Branch
    \/ MoveWDnDn
    \/ AddWDnDn
    \/ AddqW
    \/ MoveWDnPostInc
    \/ MoveWDnAbs
    \/ MoveWImmAbs

\* assemble_68k() is not called by generate_rom() nor by the emitted program
AsmIdle ==
    /\ insts = <<>>
    /\ apass = 0
    /\ aidx = 1
    /\ apc = 0
    /\ labels = [n \in {} |-> 0]
    /\ code = <<>>

(***************************************************************************)
(* Spec: the image returned by generate_rom(), executed from reset.        *)
(***************************************************************************)
Init ==
    /\ Returned.stage = "done"
    /\ gen = GenOff
    /\ filler = 0
    /\ PowerOn
    /\ AsmIdle

Next == Execute

Spec == Init /\ [][Next]_vars

\* the processor keeps executing instructions
FairSpec == Spec /\ WF_vars(Next)

(***************************************************************************)
(* SpecGen: generate_rom() itself, statement by statement, for the program *)
(* as written (filler = 0) and with filler inserted in the sieve loop.     *)
(***************************************************************************)
FillerStride == 25
MaxFiller == 8
FillerChoices == {k * FillerStride : k \in 0..MaxFiller}

InitGen ==
    /\ gen = GenStart
    /\ filler \in FillerChoices
    /\ CpuOff
    /\ AsmIdle

NextGen == Generate

SpecGen == InitGen /\ [][NextGen]_vars

(***************************************************************************)
(* SpecAsm: assemble_68k(instructions), lines 16-49.  An instruction is    *)
(*   a label        the str "name:"                                        *)
(*   bytes          a bytes object, copied as is                           *)
(*   a tuple        (opcode, size, *args): opcode is bytes, or a callable  *)
(*                  called as opcode(pc, labels, *args); the callable of   *)
(*                  the file is branch_displacement, with args = (target,) *)
(***************************************************************************)
ALabel(n) == [kind |-> "label", name |-> n, data |-> <<>>, size |-> 0, callable |-> FALSE]
ABytes(b) == [kind |-> "bytes", name |-> "", data |-> b, size |-> 0, callable |-> FALSE]
AOpcode(b, sz) == [kind |-> "tuple", name |-> "", data |-> b, size |-> sz, callable |-> FALSE]
ABranch(t, sz) == [kind |-> "tuple", name |-> t, data |-> <<>>, size |-> sz, callable |-> TRUE]

\* the instructions the argument is drawn from, and its greatest length
AsmItems ==
    {ALabel("a"), ALabel("b"), ABytes(NOP), AOpcode(NOP, 2), ABranch("a", 2), ABranch("b", 2)}
MaxInsts == 3
AsmInputs == UNION {[1..n -> AsmItems] : n \in 0..MaxInsts}

\* lines 59-62: branch_displacement(pc, labels, target); labels[target] raises
\* KeyError for a target that is no key
branch_displacement(pc, lbls, target) == word(lbls[target] - (pc + 2))

\* lines 18-22: code = bytearray(); labels = {}; pc = 0
InitAsm ==
    /\ insts \in AsmInputs
    /\ apass = 1
    /\ aidx = 1
    /\ apc = 0
    /\ labels = [n \in {} |-> 0]
    /\ code = <<>>
    /\ gen = GenOff
    /\ filler = 0
    /\ CpuOff

AsmFrame == UNCHANGED <<insts, genVars, cpuVars>>
InPass(p) == apass = p /\ aidx <= Len(insts)

\* lines 24-25: labels[inst[:-1]] = pc
Pass1Label ==
    /\ InPass(1) /\ insts[aidx].kind = "label"
    /\ labels' = (insts[aidx].name :> apc) @@ labels
    /\ aidx' = aidx + 1
    /\ UNCHANGED <<apass, apc, code>>
    /\ AsmFrame

\* lines 26-27: pc += len(inst)
Pass1Bytes ==
    /\ InPass(1) /\ insts[aidx].kind = "bytes"
    /\ apc' = apc + Len(insts[aidx].data)
    /\ aidx' = aidx + 1
    /\ UNCHANGED <<apass, labels, code>>
    /\ AsmFrame

\* lines 28-29: pc += inst[1]
Pass1Tuple ==
    /\ InPass(1) /\ insts[aidx].kind = "tuple"
    /\ apc' = apc + insts[aidx].size
    /\ aidx' = aidx + 1
    /\ UNCHANGED <<apass, labels, code>>
    /\ AsmFrame

\* line 32: the first loop is over; pc = 0
Pass1End ==
    /\ apass = 1 /\ aidx > Len(insts)
    /\ apass' = 2
    /\ aidx' = 1
    /\ apc' = 0
    /\ UNCHANGED <<labels, code>>
    /\ AsmFrame

\* lines 34-35: continue
Pass2Label ==
    /\ InPass(2) /\ insts[aidx].kind = "label"
    /\ aidx' = aidx + 1
    /\ UNCHANGED <<apass, apc, labels, code>>
    /\ AsmFrame

\* lines 36-38: code.extend(inst); pc += len(inst)
Pass2Bytes ==
    /\ InPass(2) /\ insts[aidx].kind = "bytes"
    /\ code' = code \o insts[aidx].data
    /\ apc' = apc + Len(insts[aidx].data)
    /\ aidx' = aidx + 1
    /\ UNCHANGED <<apass, labels>>
    /\ AsmFrame

\* lines 39-47, opcode not callable: code.extend(opcode); pc += size
Pass2Opcode ==
    /\ InPass(2) /\ insts[aidx].kind = "tuple" /\ ~insts[aidx].callable
    /\ code' = code \o insts[aidx].data
    /\ apc' = apc + insts[aidx].size
    /\ aidx' = aidx + 1
    /\ UNCHANGED <<apass, labels>>
    /\ AsmFrame

\* lines 41-44, 47: result = opcode(pc, labels, *args); code.extend(result); pc += size
Pass2Deferred ==
    /\ InPass(2) /\ insts[aidx].kind = "tuple" /\ insts[aidx].callable
    /\ insts[aidx].name \in DOMAIN labels
    /\ code' = code \o branch_displacement(apc, labels, insts[aidx].name)
    /\ apc' = apc + insts[aidx].size
    /\ aidx' = aidx + 1
    /\ UNCHANGED <<apass, labels>>
    /\ AsmFrame

\* line 61: labels[target] raises KeyError, which nothing catches
Pass2KeyError ==
    /\ InPass(2) /\ insts[aidx].kind = "tuple" /\ insts[aidx].callable
    /\ insts[aidx].name \notin DOMAIN labels
    /\ apass' = 4
    /\ UNCHANGED <<aidx, apc, labels, code>>
    /\ AsmFrame

\* line 49: return bytes(code)
AsmReturn ==
    /\ apass = 2 /\ aidx > Len(insts)
    /\ apass' = 3
    /\ UNCHANGED <<aidx, apc, labels, code>>
    /\ AsmFrame

NextAsm ==
    \/ Pass1Label
    \/ Pass1Bytes
    \/ Pass1Tuple
    \/ Pass1End
    \/ Pass2Label
    \/ Pass2Bytes
    \/ Pass2Opcode
    \/ Pass2Deferred
    \/ Pass2KeyError
    \/ AsmReturn

SpecAsm == InitAsm /\ [][NextAsm]_vars

(***************************************************************************)
(* Where the emitted program stands, from the labels of generate_rom()     *)
(***************************************************************************)
LabelAddr(n) == CODE_START + Returned.locals[n]
HangAddr == LabelAddr("hang")
AtIdle == power.on /\ cpu.pc = HangAddr

\* generate_cpp_header(), lines 294-300: the list `primes`
EXPECTED_PRIMES ==
    << 2, 3, 5, 7, 11, 13, 17, 19, 23, 29, 31, 37, 41, 43, 47, 53, 59, 61, 67, 71,
       73, 79, 83, 89, 97, 101, 103, 107, 109, 113, 127, 131, 137, 139, 149, 151,
       157, 163, 167, 173, 179, 181, 191, 193, 197, 199, 211, 223, 227, 229, 233,
       239, 241, 251, 257, 263, 269, 271, 277, 281, 283, 293, 307, 311, 313, 317,
       331, 337, 347, 349, 353, 359, 367, 373, 379, 383, 389, 397, 401, 409, 419,
       421, 431, 433, 439, 443, 449, 457, 461, 463, 467, 479, 487, 491, 499, 503,
       509, 521, 523, 541 >>

IsPrime(p) == p >= 2 /\ \A d \in 2..(p - 1) : d * d > p \/ p % d # 0

\* s lists, in ascending order, exactly the n smallest primes
IsFirstPrimes(s, n) ==
    /\ Len(s) = n
    /\ \A k \in 1..(n - 1) : s[k] < s[k + 1]
    /\ \A k \in 1..n : IsPrime(s[k])
    /\ \A p \in 2..s[n] : IsPrime(p) => \E k \in 1..n : s[k] = p

\* the 16-bit words of the results array, in order
ResultWords == [k \in 1..NUM_PRIMES |-> ReadWord(PRIME_RESULTS_ADDR + 2 * (k - 1))]

(***************************************************************************)
(* C1                                                                      *)
(***************************************************************************)
\* C1: once the program started at reset has reached the idle loop, the word
\* at $FF0500 is 100 and the 100 words from $FF0300 are, in order, the list
\* of generate_cpp_header(), which is the ascending list of the first 100
\* primes, 2 to 541.
C1_PrimesAtIdle ==
    AtIdle =>
        /\ ReadWord(PRIME_COUNT_ADDR) = NUM_PRIMES
        /\ ResultWords = EXPECTED_PRIMES
        /\ IsFirstPrimes(ResultWords, NUM_PRIMES)
        /\ ResultWords[NUM_PRIMES] = 541

\* the idle loop reached from a RAM that held $FF everywhere, results stored
C1_Witness ==
    /\ AtIdle
    /\ power.fill = 255
    /\ cpu.d1 = NUM_PRIMES
    /\ ResultWords[1] = 2
    /\ ResultWords[NUM_PRIMES] = 541

(***************************************************************************)
(* C2                                                                      *)
(***************************************************************************)
\* the sum of the big-endian words of s at offsets lo, lo + 2, ... below hi
RECURSIVE SumWords(_, _, _)
SumWords(s, lo, hi) ==
    IF lo >= hi THEN 0
    ELSE IF lo + 2 >= hi THEN WordAt(s, lo)
    ELSE LET mid == lo + 2 * ((hi - lo) \div 4)
         IN  SumWords(s, lo, mid) + SumWords(s, mid, hi)

\* C2: in the image generate_rom() returns, the word at $18E-$18F is the low
\* 16 bits of the sum of the words from $200 to the end of the image (code
\* and padding); when the sum is taken the image is already padded, and the
\* region summed is the code followed by zeros, before and after the write.
C2_Checksum ==
    /\ gen.stage = "done" =>
          WordAt(gen.rom, 398) = SumWords(gen.rom, CODE_START, Len(gen.rom)) % 65536
    /\ gen.stage \in {"checksum", "done"} =>
          /\ ~NeedsPad(Len(gen.rom))
          /\ SubSeq(gen.rom, CODE_START + 1, Len(gen.rom))
               = gen.program \o Zeros(Len(gen.rom) - CODE_START - Len(gen.program))

\* a returned image of three blocks whose checksum slot holds a non-zero sum
C2_Witness ==
    /\ gen.stage = "done"
    /\ Len(gen.rom) = 3 * BLOCK
    /\ WordAt(gen.rom, 398) # 0
    /\ WordAt(gen.rom, 398) = gen.checksum

(***************************************************************************)
(* C3, C4                                                                  *)
(***************************************************************************)
\* the displacement a branch is meant to have, and the one its byte encodes
Intended(g, b) == g.locals[b.target] - (b.anchor + 2)
Encoded(g, b) == Signed8(g.program[b.anchor + 2])
Assembled(g) == g.stage \notin {"off", "assemble"}

\* C3: in the finished code buffer, every 8-bit branch (the six patched
\* forward ones, the three backward ones, the branch to self at hang) holds
\* a branch opcode followed by the byte that, read as signed, is
\* target - (anchor + 2) whenever that value fits a signed byte; for the
\* program as written it fits for every branch, so no placeholder 0 is left.
C3_Displacements ==
    Assembled(gen) =>
        \A b \in gen.branches :
            /\ b.target \in DOMAIN gen.locals
            /\ gen.program[b.anchor + 1] \in {96, 102, 103, 108, 110}
            /\ Intended(gen, b) \in -128..127 => Encoded(gen, b) = Intended(gen, b)
            /\ filler = 0 =>
                  /\ Intended(gen, b) \in -128..127
                  /\ Encoded(gen, b) = Intended(gen, b)
                  /\ b.anchor # gen.locals["hang"] => gen.program[b.anchor + 2] # 0

\* the program as written, assembled: ten branches, forward and backward
C3_Witness ==
    /\ gen.stage = "done"
    /\ filler = 0
    /\ Cardinality(gen.branches) = 10
    /\ \E b \in gen.branches : Encoded(gen, b) = 36 /\ b.target = "collect"
    /\ \E b \in gen.branches : Encoded(gen, b) = -42 /\ b.target = "sieve_loop"

\* C4 (the claim): no image is returned with a branch whose displacement
\* does not fit a signed byte; generate_rom() stops before.
C4_OverflowRaises ==
    gen.stage = "done" =>
        \A b \in gen.branches : Intended(gen, b) \in -128..127

(***************************************************************************)
(* C6                                                                      *)
(***************************************************************************)
\* C6: the padded image is a positive multiple of 512 bytes long, the next
\* one after the code; bytes $000-$1FF are vectors and header (the header
\* as built, but for its checksum slot), the code buffer stands from $200
\* and every byte after it is zero.
C6_ImageLayout ==
    gen.stage \in {"checksum", "done"} =>
        /\ Len(gen.rom) >= BLOCK
        /\ Len(gen.rom) % BLOCK = 0
        /\ Len(gen.rom) - (CODE_START + Len(gen.program)) \in 0..(BLOCK - 1)
        /\ SubSeq(gen.rom, CODE_START + 1, CODE_START + Len(gen.program)) = gen.program
        /\ \A k \in (CODE_START + Len(gen.program) + 1)..Len(gen.rom) : gen.rom[k] = 0
        /\ [k \in 1..256 |-> IF k \in {143, 144} THEN 0 ELSE gen.rom[256 + k]] = header(gen)
        /\ \A e \in 2..63 : LongAt(gen.rom, 4 * e) = gen.locals["hang_addr"]

\* a returned image of three blocks: code longer than one block
C6_Witness ==
    /\ gen.stage = "done"
    /\ Len(gen.program) > BLOCK
    /\ Len(gen.rom) = 3 * BLOCK

(***************************************************************************)
(* C7                                                                      *)
(***************************************************************************)
\* C7: once the vectors are filled, entry 0 is the initial stack pointer
\* $00FFFFFE, entry 1 is $200, where the first emitted instruction stands in
\* the image, and entries 2 to 63 are $200 plus the offset of hang, where
\* the image holds bra.s to itself.
C7_Vectors ==
    /\ gen.stage \in {"append", "pad", "checksum", "done"} =>
          /\ LongAt(gen.rom, 0) = 16777214
          /\ LongAt(gen.rom, 4) = CODE_START
          /\ \A e \in 2..63 : LongAt(gen.rom, 4 * e) = CODE_START + gen.locals["hang"]
    /\ gen.stage \in {"pad", "checksum", "done"} =>
          LET h == CODE_START + gen.locals["hang"]
          IN  /\ SubSeq(gen.rom, CODE_START + 1, CODE_START + 6) = LEA_FF0000_A7
              /\ gen.rom[h + 1] = 96
              /\ h + 2 + Signed8(gen.rom[h + 2]) = h

\* the image of the program as written: the vectors point at $28E
C7_Witness ==
    /\ gen.stage = "done"
    /\ filler = 0
    /\ LongAt(gen.rom, 8) = 654
    /\ LongAt(gen.rom, 252) = 654
    /\ SubSeq(gen.rom, 655, 656) = <<96, 254>>

(***************************************************************************)
(* C5                                                                      *)
(***************************************************************************)
\* the value of pc when the first pass reaches instruction k
RECURSIVE OffsetOf(_, _)
OffsetOf(seq, k) ==
    IF k <= 1 THEN 0
    ELSE OffsetOf(seq, k - 1)
         + (IF seq[k - 1].kind = "bytes" THEN Len(seq[k - 1].data) ELSE seq[k - 1].size)

\* instruction k binds a label that an earlier instruction has bound
Rebinds(seq, k) ==
    /\ seq[k].kind = "label"
    /\ \E j \in 1..(k - 1) : seq[j].kind = "label" /\ seq[j].name = seq[k].name

FirstBinding(seq, n) ==
    CHOOSE j \in 1..Len(seq) :
        /\ seq[j].kind = "label" /\ seq[j].name = n
        /\ \A h \in 1..(j - 1) : ~(seq[h].kind = "label" /\ seq[h].name = n)

\* C5 (the claim): once the first pass has gone past a second binding of a
\* label, assemble_68k() has raised; the table holds for every label the
\* offset of its first binding; and a call that returned resolved no label
\* that was never bound.
C5_RebindRaises ==
    /\ \A k \in 1..Len(insts) :
          (Rebinds(insts, k) /\ (apass > 1 \/ aidx > k)) => apass = 4
    /\ \A n \in DOMAIN labels : labels[n] = OffsetOf(insts, FirstBinding(insts, n))
    /\ apass = 3 =>
          \A k \in 1..Len(insts) :
              (insts[k].kind = "tuple" /\ insts[k].callable) => insts[k].name \in DOMAIN labels

(***************************************************************************)
(* C8                                                                      *)
(***************************************************************************)
Range(seq) == {seq[k] : k \in 1..Len(seq)}

\* C8: in a run that started with the word at $FF0502 different from $DEAD,
\* the word is different from $DEAD as long as the sentinel store has not
\* executed (so in every state before the count is written); it is $DEAD in
\* every state at the idle loop; and the absolute stores happen in the
\* order count, sentinel.
C8_Sentinel ==
    power.on =>
        /\ (~power.preset /\ DONE_FLAG_ADDR \notin Range(stored)) =>
              ReadWord(DONE_FLAG_ADDR) # DONE_FLAG_VALUE
        /\ cpu.pc = HangAddr =>
              /\ ReadWord(DONE_FLAG_ADDR) = DONE_FLAG_VALUE
              /\ stored = <<PRIME_COUNT_ADDR, DONE_FLAG_ADDR>>
        /\ stored \in {<<>>, <<PRIME_COUNT_ADDR>>, <<PRIME_COUNT_ADDR, DONE_FLAG_ADDR>>}
        /\ (stored = <<>> /\ ~power.preset) =>
              ReadWord(PRIME_COUNT_ADDR) = power.fill * 257

\* the idle loop reached in a run that started with $FFFF at $FF0502
C8_Witness ==
    /\ AtIdle
    /\ ~power.preset
    /\ power.fill = 255
    /\ ReadWord(DONE_FLAG_ADDR) = DONE_FLAG_VALUE
    /\ ReadWord(PRIME_COUNT_ADDR) = NUM_PRIMES
    /\ stored = <<PRIME_COUNT_ADDR, DONE_FLAG_ADDR>>

(***************************************************************************)
(* C9                                                                      *)
(***************************************************************************)
\* the phase of the program the instruction at pc belongs to:
\* 0 init, 1 clear-table, 2 mark-0-and-1, 3 sieve, 4 collect, 5 finalize, 6 idle
PhaseOf(pc) ==
    IF pc < LabelAddr("clear_loop") THEN 0
    ELSE IF pc < LabelAddr("clear_loop") + Len(CLR_B_A0_INC) + Len(DBRA_D0(-4)) THEN 1
    ELSE IF pc < LabelAddr("sieve_loop") THEN 2
    ELSE IF pc < LabelAddr("collect") THEN 3
    ELSE IF pc < LabelAddr("done_addr") THEN 4
    ELSE IF pc < HangAddr THEN 5
    ELSE 6

\* C9: every run from reset reaches the idle loop, after having been in each
\* of the phases; the phase never goes back, the program counter never leaves
\* the idle loop, and the processor never stands elsewhere without an
\* instruction to execute.
C9_Terminates ==
    /\ <>AtIdle
    /\ \A ph \in 0..6 : <>(power.on /\ PhaseOf(cpu.pc) = ph)
    /\ [][PhaseOf(cpu.pc') >= PhaseOf(cpu.pc)]_vars
    /\ [][AtIdle => AtIdle']_vars
    /\ [](power.on => (cpu.pc = HangAddr <=> PhaseOf(cpu.pc) = 6))

\* the processor at the idle loop, about to execute its branch to itself
C9_Witness ==
    /\ AtIdle
    /\ lastWrite = NoWrite
    /\ Opcode = 24830
    /\ cpu.d0 = 542

(***************************************************************************)
(* C10                                                                     *)
(***************************************************************************)
\* the instruction after `bgt.s collect`: the composite test of the sieve loop
SieveBodyAddr == CODE_START + Returned.locals["bgt_collect"] + 1

\* C10 (the claim): whenever the sieve loop has passed its bound comparison
\* and stands at the composite test, the square of the candidate d0 does not
\* exceed the table size.
C10_BoundSquare ==
    (power.on /\ cpu.pc = SieveBodyAddr) => cpu.d0 * cpu.d0 <= SIEVE_SIZE

(***************************************************************************)
(* C11                                                                     *)
(***************************************************************************)
\* the instruction after `clr.w d1` of the collect section: from here on d1
\* is the count of primes stored
CountAddr == LabelAddr("collect") + Len(LEA_FF0000_A0) + Len(LEA_FF0300_A1) + Len(CLR_W_D1)

\* the four regions of the memory layout, as sets of addresses
Regions ==
    << RAM_BASE..(RAM_BASE + SIEVE_SIZE - 1),
       PRIME_RESULTS_ADDR..(PRIME_RESULTS_ADDR + 2 * NUM_PRIMES - 1),
       PRIME_COUNT_ADDR..(PRIME_COUNT_ADDR + 1),
       DONE_FLAG_ADDR..(DONE_FLAG_ADDR + 1) >>

\* the bytes the last instruction wrote
Written ==
    IF lastWrite = NoWrite THEN {}
    ELSE lastWrite[1]..(lastWrite[1] + lastWrite[2] - 1)

=============================================================================
